---- MODULE Spec2Model ----
(***************************************************************************)
(* The extension registry of emesene (extension.py): categories, the       *)
(* registration of extension classes with the interface check, the         *)
(* default extension of a category and the class identity used as key.     *)
(*                                                                         *)
(* Strings that the code inspects character by character (file paths,      *)
(* attribute names, class names) are sequences of one-character strings.   *)
(* A class is a record of what the code reads from it: the file of its     *)
(* module (sys.modules[cls.__module__].__file__), its __name__, the names  *)
(* hasattr() finds on it and, among these, the callable ones.              *)
(***************************************************************************)
EXTENDS Naturals, Sequences, FiniteSets, TLC

VARIABLES
    _categories,   \* extension.py:122, 'CategoryName': Category
    last,          \* the last call made on the module: arguments, outcome
                   \* and the table as it was when the call started
    \* used when calls of several threads interleave (SpecThreads):
    heap,          \* the Category objects, by address
    table,         \* _categories as it is stored: name -> address
    threads,       \* per thread, the call it is in and where in it
    calls          \* how many calls were started

vars == <<_categories, last, heap, table, threads, calls>>
threadVars == <<heap, table, threads, calls>>

----------------------------------------------------------------------------
(* Bounds of the model *)

\* how many of the classes of AllClasses the callers use
NumClasses == 5

\* how many calls the threads start, all threads together
MaxCalls == 3

----------------------------------------------------------------------------
(* The values callers pass in *)

\* the properties of one category are checked on one name: no method of a
\* Category reads another Category
CategoryNames == {"dialog"}

confirm == <<"c", "o", "n", "f", "i", "r", "m">>
show    == <<"s", "h", "o", "w">>
title   == <<"t", "i", "t", "l", "e">>
dunder_init == <<"_", "_", "i", "n", "i", "t", "_", "_">>
dunder_doc  == <<"_", "_", "d", "o", "c", "_", "_">>

\* __file__ of the modules that define the classes
dialogs_py     == <<"/", "d", ".", "p", "y">>
dialogs_pyc    == <<"/", "d", ".", "p", "y", "c">>
dialogs_rel_py == <<"d", ".", "p", "y">>
getcwd         == <<"/">>

BasicDialog ==
    [file |-> dialogs_py, name |-> <<"B">>,
     attrs |-> {dunder_init, confirm}, callables |-> {dunder_init, confirm}]
FancyDialog ==
    [file |-> dialogs_py, name |-> <<"F">>,
     attrs |-> {dunder_init, confirm, show},
     callables |-> {dunder_init, confirm, show}]
\* no confirm
BrokenDialog ==
    [file |-> dialogs_py, name |-> <<"K">>,
     attrs |-> {dunder_init, show}, callables |-> {dunder_init, show}]
\* a second class named F, of the same module seen through its compiled file
FancyDialogTwin ==
    [file |-> dialogs_pyc, name |-> <<"F">>,
     attrs |-> {dunder_init, confirm}, callables |-> {dunder_init, confirm}]
\* confirm is a class attribute that cannot be called
DataDialog ==
    [file |-> dialogs_rel_py, name |-> <<"D">>,
     attrs |-> {dunder_init, confirm, title}, callables |-> {dunder_init}]
PlainDialog ==
    [file |-> dialogs_py, name |-> <<"P">>,
     attrs |-> {dunder_init, confirm}, callables |-> {dunder_init, confirm}]

AllClasses ==
    <<BasicDialog, FancyDialog, BrokenDialog, FancyDialogTwin, DataDialog,
      PlainDialog>>

Classes == {AllClasses[i] : i \in 1..NumClasses}

\* what dir() lists on the interface classes, and on None
IDialog == [name |-> "IDialog", dir |-> {dunder_init, dunder_doc, confirm}]
None    == [name |-> "None", dir |-> {dunder_doc}]

\* the *interfaces tuples given to category_register
InterfaceTuples == {<< >>, <<None, IDialog>>}

NoClass == [file |-> << >>, name |-> << >>, attrs |-> {}, callables |-> {}]
NoId    == << >>
NoTable == << >>

----------------------------------------------------------------------------
(* Helpers of the module *)

\* str.endswith
endswith(s, suffix) ==
    /\ Len(s) >= Len(suffix)
    /\ SubSeq(s, Len(s) - Len(suffix) + 1, Len(s)) = suffix

\* str.startswith
startswith(s, prefix) ==
    /\ Len(s) >= Len(prefix)
    /\ SubSeq(s, 1, Len(prefix)) = prefix

\* os.path.abspath: a path that is not absolute is joined to the working
\* directory (the paths used here have no '.', '..' or doubled '/' to fold)
abspath(path) ==
    IF startswith(path, <<"/">>) THEN path ELSE getcwd \o path

_get_class_name(cls) ==
    LET path  == abspath(cls.file)
        path2 == IF endswith(path, <<".", "p", "y", "c">>)
                 THEN SubSeq(path, 1, Len(path) - 1)
                 ELSE path
    IN  path2 \o <<":">> \o cls.name

\* mutant: the names starting with '_' are required as well
is_implementation_every_name(cls, interface_cls) ==
    \A method \in interface_cls.dir : method \in cls.attrs

is_implementation(cls, interface_cls) ==
    \A method \in {attribute \in interface_cls.dir :
                       ~startswith(attribute, <<"_">>)} :
        method \in cls.attrs

Ids == {_get_class_name(c) : c \in Classes} \cup {<<"n", "o", "n", "e">>}

----------------------------------------------------------------------------
(* class Category.  A method is an operator from the object (and the       *)
(* arguments) to the exception raised, if any, and the object afterwards.  *)

Ok(cat)         == [err |-> "none", cat |-> cat]
Raise(exc, cat) == [err |-> exc, cat |-> cat]

\* dict[key] = value
setitem(dict, key, value) == (key :> value) @@ dict

\* mutant: the class is stored under its __name__ alone
Category_register_by_name(self, cls) ==
    IF \E i \in 1..Len(self.interfaces) :
           ~is_implementation(cls, self.interfaces[i])
    THEN Raise("ValueError", self)
    ELSE Ok([self EXCEPT
                !.classes = setitem(self.classes, cls.name, cls),
                !.ids = setitem(self.ids, cls, cls.name)])

\* mutant: the class is stored before the interfaces are checked
Category_register_store_first(self, cls) ==
    LET class_name == _get_class_name(cls)
        stored == [self EXCEPT
                      !.classes = setitem(self.classes, class_name, cls),
                      !.ids = setitem(self.ids, cls, class_name)]
    IN  IF \E i \in 1..Len(self.interfaces) :
               ~is_implementation(cls, self.interfaces[i])
        THEN Raise("ValueError", stored)
        ELSE Ok(stored)

\* mutant: registering a class also selects it
Category_register_selects(self, cls) ==
    IF \E i \in 1..Len(self.interfaces) :
           ~is_implementation(cls, self.interfaces[i])
    THEN Raise("ValueError", self)
    ELSE LET class_name == _get_class_name(cls)
         IN  Ok([self EXCEPT
                    !.classes = setitem(self.classes, class_name, cls),
                    !.ids = setitem(self.ids, cls, class_name),
                    !.default_id = class_name])

Category_register(self, cls) ==
    IF \E i \in 1..Len(self.interfaces) :
           ~is_implementation(cls, self.interfaces[i])
    THEN Raise("ValueError", self)
    ELSE LET class_name == _get_class_name(cls)
         IN  Ok([self EXCEPT
                    !.classes = setitem(self.classes, class_name, cls),
                    !.ids = setitem(self.ids, cls, class_name)])

Category_get_extensions(self) == self.classes

\* mutant: default_id is assigned before the class is registered
Category__set_default_early(self, cls) ==
    LET early == [self EXCEPT !.default_id = _get_class_name(cls)]
    IN  IF cls \notin DOMAIN self.ids
        THEN Category_register(early, cls)
        ELSE Ok(early)

\* mutant: default_id is assigned inside the if, for a new class only
Category__set_default_indented(self, cls) ==
    IF cls \notin DOMAIN self.ids
    THEN LET r == Category_register(self, cls)
         IN  IF r.err # "none"
             THEN r
             ELSE Ok([r.cat EXCEPT !.default_id = _get_class_name(cls)])
    ELSE Ok(self)

\* mutant: the setter stores a new class itself, without register's check
Category__set_default_unchecked(self, cls) ==
    LET class_name == _get_class_name(cls)
    IN  Ok([self EXCEPT
               !.classes = setitem(self.classes, class_name, cls),
               !.ids = setitem(self.ids, cls, class_name),
               !.default_id = class_name])

\* mutant: the setter overwrites system_default as well
Category__set_default_overwrites_system(self, cls) ==
    LET r == IF cls \notin DOMAIN self.ids
             THEN Category_register(self, cls)
             ELSE Ok(self)
    IN  IF r.err # "none"
        THEN r
        ELSE Ok([r.cat EXCEPT !.default_id = _get_class_name(cls),
                              !.system_default = cls])

Category__set_default(self, cls) ==
    LET r == IF cls \notin DOMAIN self.ids
             THEN Category_register(self, cls)
             ELSE Ok(self)
    IN  IF r.err # "none"
        THEN r
        ELSE Ok([r.cat EXCEPT !.default_id = _get_class_name(cls)])

\* the value read, or the KeyError of the dict lookup
Category__get_default(self) ==
    IF self.default_id \in DOMAIN self.classes
    THEN [err |-> "none", ret |-> self.classes[self.default_id]]
    ELSE [err |-> "KeyError", ret |-> NoClass]

\* mutant: the id is taken as default id without the membership test
Category_set_default_by_id_unchecked(self, id_) ==
    Ok([self EXCEPT !.default_id = id_])

Category_set_default_by_id(self, id_) ==
    IF id_ \notin DOMAIN self.classes
    THEN Raise("ValueError", self)
    ELSE Category__set_default(self, self.classes[id_])

\* mutant: the constructor registers the system default and selects nothing
Category_init_selects_nothing(name, system_default, interfaces) ==
    Category_register([name |-> name,
                       system_default |-> system_default,
                       interfaces |-> interfaces,
                       classes |-> << >>,
                       instances |-> << >>,
                       ids |-> << >>,
                       default_id |-> NoId], system_default)

\* the constructor; default_id does not exist before the last statement
\* assigned it, NoId stands for the missing attribute
Category_init(name, system_default, interfaces) ==
    LET self == [name |-> name,
                 system_default |-> system_default,
                 interfaces |-> interfaces,
                 classes |-> << >>,
                 instances |-> << >>,
                 ids |-> << >>,
                 default_id |-> NoId]
    IN  Category__set_default(self, system_default)

----------------------------------------------------------------------------
(* The functions of the module, one action each *)

\* returns tells what kind of value came back: "raised", "None", "class"
\* (in ret), "dict" (in extensions), "True" or "False"
Call(op, cat, cls, id_, ifs, err, ret) ==
    [op |-> op, category |-> cat, cls |-> cls, id_ |-> id_,
     interfaces |-> ifs, err |-> err, ret |-> ret, pre |-> _categories,
     returns |-> IF err # "none" THEN "raised"
                 ELSE IF ret # NoClass THEN "class" ELSE "None",
     extensions |-> NoTable]

\* no thread is in a call
Threads == {"t1", "t2"}
Slots   == 1..3
Idle ==
    [pc |-> "idle", op |-> "", category |-> "", cls |-> NoClass,
     id_ |-> NoId, interfaces |-> << >>, self |-> 0, setter |-> FALSE,
     creating |-> FALSE, err |-> "none"]
FreeSlot ==
    [name |-> "", system_default |-> NoClass, interfaces |-> << >>,
     classes |-> << >>, instances |-> << >>, ids |-> << >>,
     default_id |-> NoId]

Init ==
    /\ heap = [s \in Slots |-> FreeSlot]
    /\ table = << >>
    /\ threads = [t \in Threads |-> Idle]
    /\ calls = 0
    /\ _categories = << >>
    /\ last = [op |-> "import", category |-> "", cls |-> NoClass,
               id_ |-> NoId, interfaces |-> << >>, err |-> "none",
               ret |-> NoClass, pre |-> NoTable, returns |-> "None",
               extensions |-> NoTable]

\* mutant: the object is put in the table before its constructor is done
category_register_publishes_first(category, system_default, interfaces) ==
    LET r == Category_init(category, system_default, interfaces)
    IN  /\ UNCHANGED threadVars
        /\ _categories' = setitem(_categories, category, r.cat)
        /\ last' = Call("category_register", category, system_default, NoId,
                        interfaces, r.err, NoClass)

category_register(category, system_default, interfaces) ==
    LET r == Category_init(category, system_default, interfaces)
    IN  /\ UNCHANGED threadVars
        /\ _categories' = IF r.err = "none"
                          THEN setitem(_categories, category, r.cat)
                          ELSE _categories
        /\ last' = Call("category_register", category, system_default, NoId,
                        interfaces, r.err, NoClass)

get_category(category_name) ==
    IF category_name \in DOMAIN _categories
    THEN [err |-> "none", ret |-> _categories[category_name]]
    ELSE [err |-> "KeyError", ret |-> NoTable]

\* the lookup of get_category(category_name) raised: nothing is called
Missing(c) == [err |-> c.err, table |-> _categories]

\* mutant: classes and ids are attributes of the class Category, shared by
\* all its objects
Called_shared_dicts(category_name, r) ==
    [err |-> r.err,
     table |-> [n \in DOMAIN _categories |->
                   IF n = category_name
                   THEN r.cat
                   ELSE [_categories[n] EXCEPT !.classes = r.cat.classes,
                                               !.ids = r.cat.ids]]]

\* a method was called on the Category of that name: what it raised, and
\* the table, which holds the object as the method left it
Called(category_name, r) ==
    [err |-> r.err, table |-> setitem(_categories, category_name, r.cat)]

\* mutant: register as its docstring tells it, a missing category is
\* created (without interfaces, cls its first class) and False returned
register_as_documented(category_name, cls) ==
    LET c == get_category(category_name)
        r == IF c.err # "none"
             THEN LET made == Category_init(category_name, cls, << >>)
                  IN  [err |-> made.err,
                       table |-> setitem(_categories, category_name,
                                         made.cat)]
             ELSE Called(category_name, Category_register(c.ret, cls))
        call == Call("register", category_name, cls, NoId, << >>, r.err,
                     NoClass)
    IN  /\ UNCHANGED threadVars
        /\ _categories' = r.table
        /\ last' = IF r.err # "none"
                   THEN call
                   ELSE [call EXCEPT
                            !.returns = IF c.err # "none" THEN "False"
                                        ELSE "True"]

register(category_name, cls) ==
    LET c == get_category(category_name)
        r == IF c.err # "none"
             THEN Missing(c)
             ELSE Called(category_name, Category_register(c.ret, cls))
    IN  /\ UNCHANGED threadVars
        /\ _categories' = r.table
        /\ last' = Call("register", category_name, cls, NoId, << >>, r.err,
                        NoClass)

\* Category has no attribute set_default
set_default(category_name, cls) ==
    LET c == get_category(category_name)
        r == IF c.err # "none"
             THEN Missing(c)
             ELSE Called(category_name, Raise("AttributeError", c.ret))
    IN  /\ UNCHANGED threadVars
        /\ _categories' = r.table
        /\ last' = Call("set_default", category_name, cls, NoId, << >>,
                        r.err, NoClass)

set_default_by_id(category_name, id_) ==
    LET c == get_category(category_name)
        r == IF c.err # "none"
             THEN Missing(c)
             ELSE Called(category_name,
                         Category_set_default_by_id(c.ret, id_))
    IN  /\ UNCHANGED threadVars
        /\ _categories' = r.table
        /\ last' = Call("set_default_by_id", category_name, NoClass, id_,
                        << >>, r.err, NoClass)

\* get_category(category_name).default = cls, the setter of the property
default_setter(category_name, cls) ==
    LET c == get_category(category_name)
        r == IF c.err # "none"
             THEN Missing(c)
             ELSE Called(category_name, Category__set_default(c.ret, cls))
    IN  /\ UNCHANGED threadVars
        /\ _categories' = r.table
        /\ last' = Call("default_setter", category_name, cls, NoId, << >>,
                        r.err, NoClass)

get_extensions(category_name) ==
    LET c == get_category(category_name)
        call == Call("get_extensions", category_name, NoClass, NoId, << >>,
                     c.err, NoClass)
    IN  /\ UNCHANGED threadVars
        /\ _categories' = _categories
        /\ last' = IF c.err # "none"
                   THEN call
                   ELSE [call EXCEPT
                            !.returns = "dict",
                            !.extensions = Category_get_extensions(c.ret)]

get_default(category_name) ==
    LET c == get_category(category_name)
        r == IF c.err # "none"
             THEN [err |-> c.err, ret |-> NoClass]
             ELSE Category__get_default(c.ret)
    IN  /\ UNCHANGED threadVars
        /\ _categories' = _categories
        /\ last' = Call("get_default", category_name, NoClass, NoId, << >>,
                        r.err, r.ret)

get_system_default(category_name) ==
    LET c == get_category(category_name)
        r == IF c.err # "none"
             THEN [err |-> c.err, ret |-> NoClass]
             ELSE [err |-> "none", ret |-> c.ret.system_default]
    IN  /\ UNCHANGED threadVars
        /\ _categories' = _categories
        /\ last' = Call("get_system_default", category_name, NoClass, NoId,
                        << >>, r.err, r.ret)

Next ==
    \/ \E n \in CategoryNames, c \in Classes, ifs \in InterfaceTuples :
           category_register(n, c, ifs)
    \/ \E n \in CategoryNames, c \in Classes : register(n, c)
    \/ \E n \in CategoryNames, c \in Classes : set_default(n, c)
    \/ \E n \in CategoryNames, i \in Ids : set_default_by_id(n, i)
    \/ \E n \in CategoryNames, c \in Classes : default_setter(n, c)
    \/ \E n \in CategoryNames : get_extensions(n)
    \/ \E n \in CategoryNames : get_default(n)
    \/ \E n \in CategoryNames : get_system_default(n)

Spec == Init /\ [][Next]_vars

\* Two categories side by side, used by few classes
TwoNames      == {"dialog", "sound"}
SharedClasses == {BasicDialog, BrokenDialog}

NextTwo ==
    \/ \E n \in TwoNames, c \in SharedClasses, ifs \in InterfaceTuples :
           category_register(n, c, ifs)
    \/ \E n \in TwoNames, c \in SharedClasses : register(n, c)
    \/ \E n \in TwoNames, c \in SharedClasses : set_default(n, c)
    \/ \E n \in TwoNames,
          i \in {_get_class_name(c) : c \in SharedClasses}
                 \cup {<<"n", "o", "n", "e">>} :
           set_default_by_id(n, i)
    \/ \E n \in TwoNames, c \in SharedClasses : default_setter(n, c)
    \/ \E n \in TwoNames : get_extensions(n)
    \/ \E n \in TwoNames : get_default(n)
    \/ \E n \in TwoNames : get_system_default(n)

SpecTwo == Init /\ [][NextTwo]_vars

\* is_implementation called on its own, with every class that has, as data
\* or as method, some of three names, and every interface listing some of
\* four names, and None
ProbeNames == {confirm, show, dunder_init}
AnyProbeClasses ==
    {[file |-> dialogs_py, name |-> <<"X">>, attrs |-> a, callables |-> c] :
        a \in SUBSET ProbeNames, c \in SUBSET ProbeNames}
\* what can be called on a class is a member of it
ProbeClasses == {k \in AnyProbeClasses : k.callables \subseteq k.attrs}
ProbeInterfaces ==
    {[name |-> "IProbe", dir |-> d] :
        d \in SUBSET {confirm, show, dunder_init, dunder_doc}} \cup {None}

is_implementation_call(cls, interface_cls) ==
    /\ UNCHANGED threadVars
    /\ _categories' = _categories
    /\ last' = [Call("is_implementation", "", cls, NoId, <<interface_cls>>,
                     "none", NoClass)
                  EXCEPT !.returns = IF is_implementation(cls, interface_cls)
                                     THEN "True" ELSE "False"]

NextConformance ==
    \E c \in ProbeClasses, i \in ProbeInterfaces :
        is_implementation_call(c, i)

SpecConformance == Init /\ [][NextConformance]_vars

----------------------------------------------------------------------------
(* Calls of several threads, nothing locked: a call is the sequence of     *)
(* its reads and writes of the table, of the dictionaries and of the       *)
(* attributes of a Category, and between any two of them the other thread  *)
(* may run.  What a thread reads from its arguments, and the interface     *)
(* loop over the tuple self.interfaces that nothing changes, is part of    *)
(* the step that follows.                                                  *)

ThreadClasses == {BasicDialog, FancyDialog, BrokenDialog}
ThreadIds ==
    {_get_class_name(c) : c \in ThreadClasses} \cup {<<"n", "o", "n", "e">>}

\* the table as get_category reads it
View(h, tb) == [n \in DOMAIN tb |-> h[tb[n]]]

\* an object that no name of the table and no thread refers to is gone
Referenced(s, tb, th) ==
    \/ \E n \in DOMAIN tb : tb[n] = s
    \/ \E t \in Threads : th[t].self = s

Collect(h, tb, th) ==
    [s \in Slots |-> IF Referenced(s, tb, th) THEN h[s] ELSE FreeSlot]

NewSlot ==
    CHOOSE s \in Slots :
        /\ ~Referenced(s, table, threads)
        /\ \A s2 \in Slots : ~Referenced(s2, table, threads) => s <= s2

\* thread t goes on as thr, the objects and the table being h and tb
Commit(t, thr, h, tb) ==
    /\ threads' = [threads EXCEPT ![t] = thr]
    /\ table' = tb
    /\ heap' = Collect(h, tb, threads')
    /\ _categories' = View(heap', tb)
    /\ UNCHANGED last

\* mutant: ids is written before classes
register_write_ids_first(step, self, cls) ==
    IF step = 1
    THEN [self EXCEPT !.ids = setitem(self.ids, cls, _get_class_name(cls))]
    ELSE [self EXCEPT
             !.classes = setitem(self.classes, _get_class_name(cls), cls)]

\* the two writes of Category.register, in their order
register_write(step, self, cls) ==
    IF step = 1
    THEN [self EXCEPT
             !.classes = setitem(self.classes, _get_class_name(cls), cls)]
    ELSE [self EXCEPT !.ids = setitem(self.ids, cls, _get_class_name(cls))]

\* a thread enters one of the functions
begin(t, op, category, cls, id_, interfaces) ==
    /\ threads[t].pc = "idle"
    /\ calls < MaxCalls
    /\ calls' = calls + 1
    /\ Commit(t, [Idle EXCEPT !.op = op, !.category = category,
                              !.cls = cls, !.id_ = id_,
                              !.interfaces = interfaces,
                              !.pc = IF op = "category_register"
                                     THEN "construct" ELSE "lookup"],
              heap, table)

\* Category.__init__ up to its last statement, on an object of its own
construct(t) ==
    LET thr == threads[t]
        fresh == [name |-> thr.category,
                  system_default |-> thr.cls,
                  interfaces |-> thr.interfaces,
                  classes |-> << >>,
                  instances |-> << >>,
                  ids |-> << >>,
                  default_id |-> NoId]
    IN  /\ thr.pc = "construct"
        /\ UNCHANGED calls
        /\ Commit(t, [thr EXCEPT !.self = NewSlot, !.creating = TRUE,
                                 !.setter = TRUE, !.pc = "sd_test"],
                  [heap EXCEPT ![NewSlot] = fresh], table)

\* get_category: _categories[category_name]
lookup(t) ==
    LET thr == threads[t]
    IN  /\ thr.pc = "lookup"
        /\ UNCHANGED calls
        /\ IF thr.category \notin DOMAIN table
           THEN Commit(t, Idle, heap, table)
           ELSE Commit(t, [thr EXCEPT
                             !.self = table[thr.category],
                             !.setter = (thr.op = "default_setter"),
                             !.pc = CASE thr.op = "register" -> "reg_check"
                                      [] thr.op = "default_setter"
                                            -> "sd_test"
                                      [] OTHER -> "by_id_test"],
                       heap, table)

\* set_default_by_id: if id_ not in self.classes
by_id_test(t) ==
    LET thr == threads[t]
    IN  /\ thr.pc = "by_id_test"
        /\ UNCHANGED calls
        /\ IF thr.id_ \notin DOMAIN heap[thr.self].classes
           THEN Commit(t, Idle, heap, table)
           ELSE Commit(t, [thr EXCEPT !.pc = "by_id_read"], heap, table)

\* set_default_by_id: self.classes[id_], given to the setter
by_id_read(t) ==
    LET thr == threads[t]
    IN  /\ thr.pc = "by_id_read"
        /\ UNCHANGED calls
        /\ Commit(t, [thr EXCEPT !.cls = heap[thr.self].classes[thr.id_],
                                 !.setter = TRUE, !.pc = "sd_test"],
                  heap, table)

\* _set_default: if cls not in self.ids
sd_test(t) ==
    LET thr == threads[t]
    IN  /\ thr.pc = "sd_test"
        /\ UNCHANGED calls
        /\ Commit(t, [thr EXCEPT
                         !.pc = IF thr.cls \notin DOMAIN heap[thr.self].ids
                                THEN "reg_check" ELSE "sd_write"],
                  heap, table)

\* Category.register: the interface loop
reg_check(t) ==
    LET thr == threads[t]
        self == heap[thr.self]
    IN  /\ thr.pc = "reg_check"
        /\ UNCHANGED calls
        /\ IF \E i \in 1..Len(self.interfaces) :
                  ~is_implementation(thr.cls, self.interfaces[i])
           THEN Commit(t, Idle, heap, table)
           ELSE Commit(t, [thr EXCEPT !.pc = "reg_write1"], heap, table)

\* Category.register: the first dictionary write
reg_write1(t) ==
    LET thr == threads[t]
    IN  /\ thr.pc = "reg_write1"
        /\ UNCHANGED calls
        /\ Commit(t, [thr EXCEPT !.pc = "reg_write2"],
                  [heap EXCEPT ![thr.self] = register_write(1, @, thr.cls)],
                  table)

\* Category.register: the second dictionary write
reg_write2(t) ==
    LET thr == threads[t]
    IN  /\ thr.pc = "reg_write2"
        /\ UNCHANGED calls
        /\ Commit(t, IF thr.setter THEN [thr EXCEPT !.pc = "sd_write"]
                     ELSE Idle,
                  [heap EXCEPT ![thr.self] = register_write(2, @, thr.cls)],
                  table)

\* _set_default: self.default_id = _get_class_name(cls)
sd_write(t) ==
    LET thr == threads[t]
    IN  /\ thr.pc = "sd_write"
        /\ UNCHANGED calls
        /\ Commit(t, IF thr.creating THEN [thr EXCEPT !.pc = "publish"]
                     ELSE Idle,
                  [heap EXCEPT ![thr.self].default_id =
                                   _get_class_name(thr.cls)],
                  table)

\* category_register: _categories[category] = the object constructed
publish(t) ==
    LET thr == threads[t]
    IN  /\ thr.pc = "publish"
        /\ UNCHANGED calls
        /\ Commit(t, Idle, heap, setitem(table, thr.category, thr.self))

NextThreads ==
    \/ \E t \in Threads, n \in CategoryNames, c \in ThreadClasses,
          ifs \in InterfaceTuples :
           begin(t, "category_register", n, c, NoId, ifs)
    \/ \E t \in Threads, n \in CategoryNames, c \in ThreadClasses :
           begin(t, "register", n, c, NoId, << >>)
    \/ \E t \in Threads, n \in CategoryNames, c \in ThreadClasses :
           begin(t, "default_setter", n, c, NoId, << >>)
    \/ \E t \in Threads, n \in CategoryNames, i \in ThreadIds :
           begin(t, "set_default_by_id", n, NoClass, i, << >>)
    \/ \E t \in Threads : construct(t)
    \/ \E t \in Threads : lookup(t)
    \/ \E t \in Threads : by_id_test(t)
    \/ \E t \in Threads : by_id_read(t)
    \/ \E t \in Threads : sd_test(t)
    \/ \E t \in Threads : reg_check(t)
    \/ \E t \in Threads : reg_write1(t)
    \/ \E t \in Threads : reg_write2(t)
    \/ \E t \in Threads : sd_write(t)
    \/ \E t \in Threads : publish(t)

SpecThreads == Init /\ [][NextThreads]_vars

----------------------------------------------------------------------------
(* What the properties below speak about *)

\* the category the last call addressed, before and after the call
Existed == last.category \in DOMAIN last.pre
PreCat  == last.pre[last.category]
PostCat == _categories[last.category]

\* the attribute names an interface requires
Required(interface_cls) ==
    {a \in interface_cls.dir : a[1] # "_"}

\* the class has a member of every name the interfaces of the tuple require
SatisfiesAll(cls, interfaces) ==
    \A i \in 1..Len(interfaces) : Required(interfaces[i]) \subseteq cls.attrs

Values(dict) == {dict[k] : k \in DOMAIN dict}

----------------------------------------------------------------------------
\* C1: in every reachable state every category of the table has a default
\* id that is a key of its classes, so that reading the default raises
\* nothing and yields one of the registered classes; a get_default call on
\* an existing category returns such a class without an error.
DefaultIdAlwaysRegistered ==
    /\ \A n \in DOMAIN _categories :
          LET cat == _categories[n]
          IN  /\ cat.default_id \in DOMAIN cat.classes
              /\ Category__get_default(cat).err = "none"
              /\ Category__get_default(cat).ret \in Values(cat.classes)
    /\ (last.op = "get_default" /\ Existed) =>
          /\ last.err = "none"
          /\ last.ret \in Values(PostCat.classes)

\* get_default answers after a default setter failed on a class that does
\* not match and the default had been moved away from the system default
DefaultIdAlwaysRegisteredWitness ==
    /\ last.op = "get_default" /\ Existed /\ last.err = "none"
    /\ Cardinality(DOMAIN PostCat.classes) >= 2
    /\ PostCat.default_id # _get_class_name(PostCat.system_default)
    /\ PostCat.interfaces # << >>

\* C2: register on an existing category with a class that has every
\* required member raises nothing, and afterwards the identity of the class
\* is a key of the extensions, mapped to that class.
RegisterConformingSucceeds ==
    (last.op = "register" /\ Existed
        /\ SatisfiesAll(last.cls, PreCat.interfaces)) =>
          /\ last.err = "none"
          /\ _get_class_name(last.cls) \in DOMAIN PostCat.classes
          /\ Category_get_extensions(PostCat)[_get_class_name(last.cls)]
                = last.cls

\* a class that was no key before is registered under an interface
RegisterConformingSucceedsWitness ==
    /\ last.op = "register" /\ Existed /\ last.err = "none"
    /\ PreCat.interfaces # << >>
    /\ _get_class_name(last.cls) \notin DOMAIN PreCat.classes
    /\ PostCat.classes[_get_class_name(last.cls)] = last.cls

\* C3: register on an existing category with a class that lacks a member
\* required by one of the interfaces raises ValueError and changes nothing:
\* the extensions, their number and the default are as before the call.
RegisterMismatchRejected ==
    (last.op = "register" /\ Existed
        /\ ~SatisfiesAll(last.cls, PreCat.interfaces)) =>
          /\ last.err = "ValueError"
          /\ PostCat.classes = PreCat.classes
          /\ Cardinality(DOMAIN PostCat.classes)
                = Cardinality(DOMAIN PreCat.classes)
          /\ PostCat.default_id = PreCat.default_id
          /\ _categories = last.pre

\* the scenario of the specification: two registered, the broken one refused
RegisterMismatchRejectedWitness ==
    /\ last.op = "register" /\ Existed /\ last.err = "ValueError"
    /\ ~SatisfiesAll(last.cls, PreCat.interfaces)
    /\ Cardinality(DOMAIN PostCat.classes) = 2
    /\ _get_class_name(last.cls) \notin DOMAIN PostCat.classes

\* C4: set_default_by_id with an id that is no key of the extensions raises
\* ValueError and leaves the default and the extensions as they were.
UnknownIdRejected ==
    (last.op = "set_default_by_id" /\ Existed
        /\ last.id_ \notin DOMAIN PreCat.classes) =>
          /\ last.err = "ValueError"
          /\ PostCat.default_id = PreCat.default_id
          /\ Category__get_default(PostCat) = Category__get_default(PreCat)
          /\ PostCat.classes = PreCat.classes
          /\ _categories = last.pre

\* the unknown id is refused while the default is not the system default
UnknownIdRejectedWitness ==
    /\ last.op = "set_default_by_id" /\ Existed /\ last.err = "ValueError"
    /\ last.id_ \notin DOMAIN PostCat.classes
    /\ PostCat.default_id # _get_class_name(PostCat.system_default)

\* C5: set_default_by_id with an id that is a key of the extensions raises
\* nothing, makes exactly that id the default id, so that the default read
\* afterwards is the class stored under the id, and leaves the extensions
\* unchanged.
KnownIdBecomesDefault ==
    (last.op = "set_default_by_id" /\ Existed
        /\ last.id_ \in DOMAIN PreCat.classes) =>
          /\ last.err = "none"
          /\ PostCat.default_id = last.id_
          /\ Category__get_default(PostCat)
                = [err |-> "none",
                   ret |-> Category_get_extensions(PostCat)[last.id_]]
          /\ PostCat.classes = PreCat.classes

\* the default moves to another registered class
KnownIdBecomesDefaultWitness ==
    /\ last.op = "set_default_by_id" /\ Existed /\ last.err = "none"
    /\ last.id_ # PreCat.default_id
    /\ PostCat.default_id = last.id_

\* C6: set_default(name, impl) on an existing category with a class that has
\* every required member registers the class if needed and makes it the
\* default: its identity is a key of the extensions and get_default
\* returns the class.
SetDefaultRegistersAndSelects ==
    (last.op = "set_default" /\ Existed
        /\ SatisfiesAll(last.cls, PreCat.interfaces)) =>
          /\ last.err = "none"
          /\ _get_class_name(last.cls) \in DOMAIN PostCat.classes
          /\ Category__get_default(PostCat)
                = [err |-> "none", ret |-> last.cls]

\* C7: category_register for a name that exists (with a system default that
\* matches the interfaces given) raises nothing and keeps every identity
\* that was a key of the extensions of that name.
RecreationKeepsExtensions ==
    (last.op = "category_register" /\ Existed
        /\ SatisfiesAll(last.cls, last.interfaces)) =>
          /\ last.err = "none"
          /\ DOMAIN PreCat.classes \subseteq DOMAIN PostCat.classes

\* C8: right after a successful category_register the default of the
\* category is the system default given, and the extensions hold exactly
\* one entry, the identity of that system default.
FreshCategoryHoldsSystemDefault ==
    (last.op = "category_register" /\ last.err = "none") =>
          /\ Category__get_default(PostCat)
                = [err |-> "none", ret |-> last.cls]
          /\ DOMAIN Category_get_extensions(PostCat)
                = {_get_class_name(last.cls)}
          /\ PostCat.system_default = last.cls

\* a category is created with an interface to match
FreshCategoryHoldsSystemDefaultWitness ==
    /\ last.op = "category_register" /\ last.err = "none"
    /\ last.interfaces # << >>
    /\ Cardinality(DOMAIN PostCat.classes) = 1

SystemDefaultKept ==
    /\ \A n \in DOMAIN _categories :
          _get_class_name(_categories[n].system_default)
              \in DOMAIN _categories[n].classes
    /\ (last.op = "category_register" /\ last.err = "none") =>
          PostCat.system_default = last.cls
    /\ (last.op # "category_register" /\ Existed) =>
          PostCat.system_default = PreCat.system_default
    /\ (last.op = "get_system_default" /\ Existed) =>
          /\ last.err = "none"
          /\ last.ret = PreCat.system_default

\* the system default is read after the default moved to another class
SystemDefaultKeptWitness ==
    /\ last.op = "get_system_default" /\ Existed /\ last.err = "none"
    /\ PostCat.default_id # _get_class_name(PostCat.system_default)
    /\ Cardinality(DOMAIN PostCat.classes) >= 3

RegisterReturnsAsDocumented ==
    (last.op = "register") =>
          /\ ~Existed =>
                /\ last.category \in DOMAIN _categories
                /\ last.returns = "False"
          /\ (Existed /\ SatisfiesAll(last.cls, PreCat.interfaces)) =>
                last.returns = "True"

\* C13: the identity of a class is the same whenever it is computed, and
\* two different classes never have the same identity: the id a category
\* keeps for a registered class is its _get_class_name, and no two classes
\* registered in a category are kept under one id.
IdentityInjective ==
    \A n \in DOMAIN _categories :
        LET ids == _categories[n].ids
        IN  /\ \A c \in DOMAIN ids : ids[c] = _get_class_name(c)
            /\ \A c1, c2 \in DOMAIN ids : ids[c1] = ids[c2] => c1 = c2

\* C14: is_implementation returns true exactly when every name the
\* interface requires (the names of dir() not starting with '_') is a
\* callable member of the class; None and an interface requiring nothing
\* are satisfied by every class.
ConformanceIffCallable ==
    (last.op = "is_implementation") =>
          /\ last.returns = "True"
                <=> Required(last.interfaces[1]) \subseteq last.cls.callables
          /\ Required(last.interfaces[1]) = {} => last.returns = "True"

\* C14 as amended: is_implementation returns true exactly when every name
\* the interface requires is a member of the class, callable or not; None
\* and an interface requiring nothing are satisfied by every class.
ConformanceIffPresent ==
    (last.op = "is_implementation") =>
          /\ last.returns \in {"True", "False"}
          /\ last.returns = "True"
                <=> Required(last.interfaces[1]) \subseteq last.cls.attrs
          /\ (last.interfaces[1] = None
                \/ Required(last.interfaces[1]) = {}) =>
                last.returns = "True"

\* a class passes although a required name is a data attribute of it
ConformanceIffPresentWitness ==
    /\ last.op = "is_implementation" /\ last.returns = "True"
    /\ Required(last.interfaces[1]) # {}
    /\ ~(Required(last.interfaces[1]) \subseteq last.cls.callables)
    /\ dunder_doc \in last.interfaces[1].dir

\* C15: register, raising or not, with a new class or a registered one,
\* never changes the selection: the default id and the class get_default
\* returns are the same before and after the call.
RegisterKeepsSelection ==
    (last.op = "register" /\ Existed) =>
          /\ PostCat.default_id = PreCat.default_id
          /\ Category__get_default(PostCat) = Category__get_default(PreCat)

\* C16: in every reachable state every class a category keeps (in classes
\* and in ids) has a member of every name its interfaces require, whether
\* register, the default setter or the constructor stored it; the default
\* setter given a class that is not registered and does not match raises
\* ValueError and leaves the default and the classes as they were.
StoredClassesConform ==
    /\ \A n \in DOMAIN _categories :
          LET cat == _categories[n]
          IN  \A c \in Values(cat.classes) \cup DOMAIN cat.ids :
                  SatisfiesAll(c, cat.interfaces)
    /\ (last.op = "default_setter" /\ Existed
          /\ last.cls \notin DOMAIN PreCat.ids
          /\ ~SatisfiesAll(last.cls, PreCat.interfaces)) =>
          /\ last.err = "ValueError"
          /\ PostCat.default_id = PreCat.default_id
          /\ PostCat.classes = PreCat.classes
          /\ _categories = last.pre

\* the default setter refuses a class while three classes are registered
StoredClassesConformWitness ==
    /\ last.op = "default_setter" /\ Existed /\ last.err = "ValueError"
    /\ ~SatisfiesAll(last.cls, PreCat.interfaces)
    /\ Cardinality(DOMAIN PostCat.classes) >= 3
    /\ PostCat.default_id # _get_class_name(PostCat.system_default)

\* C17: category_register with a system default that lacks a member the
\* interfaces given require raises ValueError and leaves the table as it
\* was: no category appears under the name, and a category that was there
\* keeps its classes and its default.
CreationMismatchRejected ==
    (last.op = "category_register"
        /\ ~SatisfiesAll(last.cls, last.interfaces)) =>
          /\ last.err = "ValueError"
          /\ _categories = last.pre
          /\ ~Existed => last.category \notin DOMAIN _categories
          /\ Existed =>
                /\ PostCat.classes = PreCat.classes
                /\ PostCat.default_id = PreCat.default_id

\* the creation is refused over a category that holds two classes
CreationMismatchRejectedWitness ==
    /\ last.op = "category_register" /\ last.err = "ValueError"
    /\ Existed
    /\ Cardinality(DOMAIN PostCat.classes) >= 2
    /\ PostCat.default_id # _get_class_name(PostCat.system_default)

\* C18: a call addressed to one category, raising or not, leaves every other
\* category as it was (classes, ids, default id, system default), and
\* creates no other category, also when both hold the same class.
CategoriesIsolated ==
    (last.op \in {"category_register", "register", "set_default_by_id",
                  "default_setter", "set_default"}) =>
          \A n \in TwoNames \ {last.category} :
              /\ n \in DOMAIN _categories <=> n \in DOMAIN last.pre
              /\ n \in DOMAIN last.pre => _categories[n] = last.pre[n]

\* a class the other category holds too is registered in this one
CategoriesIsolatedWitness ==
    /\ last.op = "register" /\ Existed /\ last.err = "none"
    /\ last.cls \notin DOMAIN PreCat.ids
    /\ \E n \in DOMAIN _categories \ {last.category} :
          /\ last.cls \in DOMAIN _categories[n].ids
          /\ _categories[n].classes # PostCat.classes

\* C19: with the calls of two threads interleaved read by read and write by
\* write, at every step every category that the table holds has its
\* default id assigned, and that id is a key of its classes, so that
\* get_default would raise nothing.
DefaultSafeInEveryInterleaving ==
    /\ _categories = View(heap, table)
    /\ \A n \in DOMAIN table :
          LET cat == heap[table[n]]
          IN  /\ cat.default_id # NoId
              /\ cat.default_id \in DOMAIN cat.classes
              /\ Category__get_default(cat).err = "none"

\* one thread is between the two writes of register for a class while the
\* other is in the default setter for that class, both on the object that
\* the table holds
DefaultSafeInEveryInterleavingWitness ==
    \E t1, t2 \in Threads :
        /\ t1 # t2
        /\ threads[t1].pc = "reg_write2" /\ ~threads[t1].creating
        /\ threads[t2].pc \in {"sd_test", "reg_check", "sd_write"}
        /\ threads[t2].cls = threads[t1].cls
        /\ threads[t2].self = threads[t1].self
        /\ \E n \in DOMAIN table : table[n] = threads[t1].self

====
